---- MODULE Spec2Model ----
(***************************************************************************)
(* Mastermind solvers of src/MaterMind: the feedback oracle get_feedback,  *)
(* the scored-inference solver (constraint.py), the CNF-filtered solver    *)
(* (logicalinterface.py) and the minimax solver (maxmin.py).               *)
(*                                                                         *)
(* A run is one call of a solver.  Codes are tuples of colour names, the   *)
(* candidate list `remaining` is a sequence in itertools.product order.    *)
(* One action is one iteration of a solver loop (or one exit of it).       *)
(***************************************************************************)
EXTENDS Integers, Sequences, FiniteSets, TLC

VARIABLES
  solver,               \* which solver function runs: "inference", "cnf", "minimax"
  pegs,                 \* pegs / PEGS
  colors_list,          \* colors_list / COLORS
  num_initial_guesses,  \* num_initial_guesses (inference and cnf solvers)
  secret,               \* the secret argument
  all_codes,            \* all_codes
  remaining,            \* remaining
  guess_history,        \* guess_history
  fb_log,               \* the feedback printed after each guess, one per turn
  premises,             \* premises (inference and cnf solvers)
  cnf_premises,         \* cnf_premises (cnf solver)
  turn,                 \* turn
  pc,                   \* "phase1", "phase2", "start", "loop", "done", "feedback"
  status,               \* "Running", "Solved", "Exhausted", "IndexError"
  call                  \* a single function call: its arguments and result

vars == <<solver, pegs, colors_list, num_initial_guesses, secret, all_codes,
          remaining, guess_history, fb_log, premises, cnf_premises, turn, pc,
          status, call>>

config == <<solver, pegs, colors_list, num_initial_guesses, secret, all_codes>>

(***************************************************************************)
(* Bounds of the model.                                                    *)
(***************************************************************************)
MaxPegs == 3
MaxColors == 3
MaxCodes == 9
MaxInitial == 3
MaxLen == 3
MaxLiterals == 2

(***************************************************************************)
(* Program constants.                                                      *)
(***************************************************************************)
COLORS == <<"red", "yellow", "green", "blue", "pink", "brown">>
PEGS == 5
initial_guess == <<"red", "red", "yellow", "green", "blue">>

\* a colour that is in no colour list: makes a secret that is not a Code
Foreign == "purple"

(***************************************************************************)
(* Helpers.                                                                *)
(***************************************************************************)
Min(a, b) == IF a < b THEN a ELSE b
Abs(a) == IF a < 0 THEN 0 - a ELSE a
Range(s) == {s[i] : i \in DOMAIN s}
Last(s) == s[Len(s)]
\* s.count(c)
Count(s, c) == Cardinality({i \in DOMAIN s : s[i] = c})
\* x in s, for a list s
In(x, s) == \E i \in DOMAIN s : s[i] = x

RECURSIVE Pow(_, _)
Pow(b, e) == IF e = 0 THEN 1 ELSE b * Pow(b, e - 1)

(***************************************************************************)
(* get_feedback(secret, guess): zip stops at the shorter argument, the     *)
(* white sum ranges over set(guess).                                       *)
(***************************************************************************)
RECURSIVE SumMinCount(_, _, _)
SumMinCount(S, s, g) ==
  IF S = {} THEN 0
  ELSE LET c == CHOOSE e \in S : TRUE
       IN Min(Count(s, c), Count(g, c)) + SumMinCount(S \ {c}, s, g)

RECURSIVE SumCountSecret(_, _)
SumCountSecret(S, s) ==
  IF S = {} THEN 0
  ELSE LET c == CHOOSE e \in S : TRUE
       IN Count(s, c) + SumCountSecret(S \ {c}, s)

\* sum(1 for s, g in zip(secret, guess) if s == g), from position i on
RECURSIVE ZipMatches(_, _, _)
ZipMatches(s, g, i) ==
  IF i > Len(s) \/ i > Len(g) THEN 0
  ELSE (IF s[i] = g[i] THEN 1 ELSE 0) + ZipMatches(s, g, i + 1)

\* mutant: the white sum forgets min(...) and counts the secret's pegs only
get_feedback_nomin(s, g) ==
  LET black == ZipMatches(s, g, 1)
      white == SumCountSecret(Range(g), s) - black
  IN <<black, white>>

\* mutant: a peg of the secret's first colour counts as black wherever it is
get_feedback_first(s, g) ==
  LET black == Cardinality({i \in 1..Min(Len(s), Len(g)) : s[i] = g[i] \/ g[i] = s[1]})
      white == SumMinCount(Range(g), s, g) - black
  IN <<black, white>>

\* mutant: black is not subtracted from the white sum
get_feedback_nosub(s, g) ==
  LET black == ZipMatches(s, g, 1)
      white == SumMinCount(Range(g), s, g)
  IN <<black, white>>

get_feedback(s, g) ==
  LET black == ZipMatches(s, g, 1)
      white == SumMinCount(Range(g), s, g) - black
  IN <<black, white>>

(***************************************************************************)
(* itertools.product(colors_list, repeat=pegs) as a list: the last         *)
(* position varies fastest.                                                *)
(***************************************************************************)
RECURSIVE product(_, _)
product(cl, n) ==
  IF n = 0 THEN << <<>> >>
  ELSE LET prev == product(cl, n - 1)
           m == Len(cl)
       IN [k \in 1..(Len(prev) * m) |->
             Append(prev[((k - 1) \div m) + 1], cl[((k - 1) % m) + 1])] \o <<>>

(***************************************************************************)
(* Candidate filtering.                                                    *)
(***************************************************************************)
\* mutant: the newest premise is applied to the whole code space
FilterNewest_all(rem, guess, fb) ==
  SelectSeq(all_codes, LAMBDA code : get_feedback(code, guess) = fb)

\* mutant: only the white count of the newest premise is compared
FilterNewest_white(rem, guess, fb) ==
  SelectSeq(rem, LAMBDA code : get_feedback(code, guess)[2] = fb[2])

\* [code for code in remaining if get_feedback(code, guess) == fb]
FilterNewest(rem, guess, fb) ==
  SelectSeq(rem, LAMBDA code : get_feedback(code, guess) = fb)

\* mutant: only the black count of a premise is compared
FilterAll_black(rem, prem) ==
  SelectSeq(rem, LAMBDA code :
    \A j \in DOMAIN prem : get_feedback(code, prem[j][1])[1] = prem[j][2][1])

\* mutant: the newest premise is left out (premises[:-1])
FilterAll_butlast(rem, prem) ==
  SelectSeq(rem, LAMBDA code :
    \A j \in 1..(Len(prem) - 1) : get_feedback(code, prem[j][1]) = prem[j][2])

\* mutant: only the oldest premise is checked
FilterAll_oldest(rem, prem) ==
  SelectSeq(rem, LAMBDA code :
    prem = <<>> \/ get_feedback(code, prem[1][1]) = prem[1][2])

\* [code for code in remaining if all(get_feedback(code, g) == f for g, f in premises)]
FilterAll(rem, prem) ==
  SelectSeq(rem, LAMBDA code :
    \A j \in DOMAIN prem : get_feedback(code, prem[j][1]) = prem[j][2])

(***************************************************************************)
(* Literal text.  A string is modelled as the sequence of its characters;  *)
(* a clause is a set of literal texts, a CNF is a list of clauses.         *)
(***************************************************************************)
DigitChars == <<"0", "1", "2", "3", "4", "5", "6", "7", "8", "9">>
Whitespace == {" ", "\t", "\n"}

\* str(c) for a colour name c
Chars(c) ==
  CASE c = "red" -> <<"r", "e", "d">>
    [] c = "yellow" -> <<"y", "e", "l", "l", "o", "w">>
    [] c = "green" -> <<"g", "r", "e", "e", "n">>
    [] c = "blue" -> <<"b", "l", "u", "e">>
    [] c = "pink" -> <<"p", "i", "n", "k">>
    [] c = "brown" -> <<"b", "r", "o", "w", "n">>
    [] c = "purple" -> <<"p", "u", "r", "p", "l", "e">>

\* str(n) for an integer n >= 0
RECURSIVE Digits(_)
Digits(n) ==
  IF n < 10 THEN <<DigitChars[n + 1]>>
  ELSE Digits(n \div 10) \o <<DigitChars[(n % 10) + 1]>>

\* mutant: the literal is "~Color({i}, ...)" with the 0-based loop index
NegLiteral_zero(i, c) ==
  <<"~", "C", "o", "l", "o", "r", "(">> \o Digits(i - 1) \o <<",", " ", "'">>
    \o Chars(c) \o <<"'", ")">>

\* f"~Color({i}, '{c}')"
NegLiteral(i, c) ==
  <<"~", "C", "o", "l", "o", "r", "(">> \o Digits(i) \o <<",", " ", "'">>
    \o Chars(c) \o <<"'", ")">>

\* s.split(",")
RECURSIVE Split(_)
Split(s) ==
  IF \A k \in DOMAIN s : s[k] # ","
  THEN <<s>>
  ELSE LET k == CHOOSE j \in DOMAIN s : s[j] = "," /\ \A h \in 1..(j - 1) : s[h] # ","
       IN <<SubSeq(s, 1, k - 1)>> \o Split(SubSeq(s, k + 1, Len(s)))

\* s.strip(chars): drop leading and trailing characters of the set
RECURSIVE Strip(_, _)
Strip(s, chars) ==
  IF s = <<>> THEN s
  ELSE IF s[1] \in chars THEN Strip(Tail(s), chars)
  ELSE IF s[Len(s)] \in chars THEN Strip(SubSeq(s, 1, Len(s) - 1), chars)
  ELSE s

DigitVal(ch) == (CHOOSE d \in DOMAIN DigitChars : DigitChars[d] = ch) - 1
IsDigit(ch) == \E d \in DOMAIN DigitChars : DigitChars[d] = ch

RECURSIVE DigitsVal(_)
DigitsVal(s) ==
  IF s = <<>> THEN 0 ELSE DigitsVal(SubSeq(s, 1, Len(s) - 1)) * 10 + DigitVal(s[Len(s)])

\* int(s): an optional sign and at least one decimal digit, else ValueError
\* (digit-group underscores are not in the model's character set)
ParseInt(s) ==
  LET signed == s # <<>> /\ s[1] \in {"+", "-"}
      body == IF signed THEN Tail(s) ELSE s
      ok == body # <<>> /\ \A k \in DOMAIN body : IsDigit(body[k])
  IN [ok |-> ok,
      val |-> IF ~ok THEN 0
              ELSE IF signed /\ s[1] = "-" THEN 0 - DigitsVal(body) ELSE DigitsVal(body)]

(***************************************************************************)
(* One literal against a code: "true", "false", "skip" (the blanket        *)
(* except: continue) or "IndexError" (code[i-1] is outside the try).       *)
(***************************************************************************)
\* mutant: the negative branch compares with == as the positive one does
LiteralEval_nosign(code, literal) ==
  LET negative == literal # <<>> /\ literal[1] = "~"
      pos_literal == IF negative THEN Tail(literal) ELSE literal
      inside == SubSeq(pos_literal, 7, Len(pos_literal) - 1)
      parts == Split(inside)
  IN IF Len(parts) # 2 THEN "skip"
     ELSE LET n == ParseInt(Strip(parts[1], Whitespace))
              c == Strip(Strip(parts[2], Whitespace), {"'"})
              idx == n.val - 1
              at == IF idx < 0 THEN idx + Len(code) + 1 ELSE idx + 1
          IN IF ~n.ok THEN "skip"
             ELSE IF at < 1 \/ at > Len(code) THEN "IndexError"
             ELSE IF Chars(code[at]) = c THEN "true" ELSE "false"

LiteralEval(code, literal) ==
  LET negative == literal # <<>> /\ literal[1] = "~"
      pos_literal == IF negative THEN Tail(literal) ELSE literal
      inside == SubSeq(pos_literal, 7, Len(pos_literal) - 1)
      parts == Split(inside)
  IN IF Len(parts) # 2 THEN "skip"
     ELSE LET n == ParseInt(Strip(parts[1], Whitespace))
              c == Strip(Strip(parts[2], Whitespace), {"'"})
              idx == n.val - 1
              \* Python indexing: a negative index counts from the end
              at == IF idx < 0 THEN idx + Len(code) + 1 ELSE idx + 1
          IN IF ~n.ok THEN "skip"
             ELSE IF at < 1 \/ at > Len(code) THEN "IndexError"
             ELSE IF negative
                  THEN (IF Chars(code[at]) # c THEN "true" ELSE "false")
                  ELSE (IF Chars(code[at]) = c THEN "true" ELSE "false")

\* mutant: a clause holds only when all of its literals are true
ClauseOutcomes_all(code, clause) ==
  LET res == {LiteralEval(code, l) : l \in clause}
  IN (IF res \subseteq {"true"} THEN {"True"} ELSE {})
       \cup (IF "IndexError" \in res THEN {"IndexError"} ELSE {})
       \cup (IF res \cap {"false", "skip"} # {} THEN {"False"} ELSE {})

\* One clause: the literals of the set are visited in an unspecified order
\* until one is true (the clause holds) or one raises.
ClauseOutcomes(code, clause) ==
  LET res == {LiteralEval(code, l) : l \in clause}
  IN (IF "true" \in res THEN {"True"} ELSE {})
       \cup (IF "IndexError" \in res THEN {"IndexError"} ELSE {})
       \cup (IF res \cap {"true", "IndexError"} = {} THEN {"False"} ELSE {})

\* code_satisfies_cnf(code, cnf): the outcomes the call can have
RECURSIVE code_satisfies_cnf(_, _)
code_satisfies_cnf(code, cnf) ==
  IF cnf = <<>> THEN {"True"}
  ELSE LET first == ClauseOutcomes(code, Head(cnf))
       IN (first \ {"True"})
            \cup (IF "True" \in first THEN code_satisfies_cnf(code, Tail(cnf)) ELSE {})

\* mutant: the clauses are emitted on a white count of 0
derive_on_white(guess, fb) ==
  IF fb[2] = 0
  THEN [i \in 1..pegs |-> {NegLiteral(i, guess[i])}]
  ELSE <<>>

\* derive_simple_cnf_constraints(guess, fb); range(PEGS) is range(pegs) here
derive_simple_cnf_constraints(guess, fb) ==
  IF fb[1] = 0
  THEN [i \in 1..pegs |-> {NegLiteral(i, guess[i])}]
  ELSE <<>>

\* [code for code in remaining if code_satisfies_cnf(code, cnf_premises)]
FilterCNF(rem, cnf) ==
  SelectSeq(rem, LAMBDA code : "True" \in code_satisfies_cnf(code, cnf))

\* the comprehension raises when a call on some candidate raises
FilterCNFRaises(rem, cnf) ==
  \E k \in DOMAIN rem : "IndexError" \in code_satisfies_cnf(rem[k], cnf)

(***************************************************************************)
(* Scored inference (constraint.py, phase 2).                              *)
(***************************************************************************)
\* mutant: the black difference is taken against the recorded white count
RECURSIVE Score_crossed(_, _)
Score_crossed(candidate, prem) ==
  IF prem = <<>> THEN 0
  ELSE LET prev_guess == Head(prem)[1]
           prev_fb == Head(prem)[2]
           candidate_fb == get_feedback(candidate, prev_guess)
       IN Abs(candidate_fb[1] - prev_fb[2]) + Abs(candidate_fb[2] - prev_fb[2])
            + Score_crossed(candidate, Tail(prem))

\* score of a candidate: the inner loop over premises
RECURSIVE Score(_, _)
Score(candidate, prem) ==
  IF prem = <<>> THEN 0
  ELSE LET prev_guess == Head(prem)[1]
           prev_fb == Head(prem)[2]
           candidate_fb == get_feedback(candidate, prev_guess)
       IN Abs(candidate_fb[1] - prev_fb[1]) + Abs(candidate_fb[2] - prev_fb[2])
            + Score(candidate, Tail(prem))

\* the loop over remaining: best is <<found, best_score, best_guess>>,
\* found = FALSE stands for best_score = inf, best_guess = None
RECURSIVE BestLoop(_, _, _, _)
BestLoop(rem, k, prem, best) ==
  IF k > Len(rem) THEN best
  ELSE LET score == Score(rem[k], prem)
       IN IF ~best[1] \/ score < best[2]
          THEN BestLoop(rem, k + 1, prem, <<TRUE, score, rem[k]>>)
          ELSE BestLoop(rem, k + 1, prem, best)

\* mutant: the update is on score <= best_score, ties go to the later candidate
RECURSIVE BestLoopLast(_, _, _, _)
BestLoopLast(rem, k, prem, best) ==
  IF k > Len(rem) THEN best
  ELSE LET score == Score(rem[k], prem)
       IN IF ~best[1] \/ score <= best[2]
          THEN BestLoopLast(rem, k + 1, prem, <<TRUE, score, rem[k]>>)
          ELSE BestLoopLast(rem, k + 1, prem, best)

best_guess_last(rem, prem) == BestLoopLast(rem, 1, prem, <<FALSE, 0, <<>>>>)[3]

best_guess(rem, prem) == BestLoop(rem, 1, prem, <<FALSE, 0, <<>>>>)[3]

(***************************************************************************)
(* Minimax (maxmin.py).                                                    *)
(***************************************************************************)
\* max(partition_sizes.values()) for one guess
worst_partition(guess, rem) ==
  LET fbs == [k \in DOMAIN rem |-> get_feedback(rem[k], guess)] \o <<>>
      size(f) == Cardinality({k \in DOMAIN rem : fbs[k] = f})
      sizes == {size(f) : f \in Range(fbs)}
  IN CHOOSE m \in sizes : \A n \in sizes : n <= m

\* mutant: the first candidate is guessed, whatever its worst case
minimax_guess_first(rem, codes) == rem[1]

\* mutant: both passes look for the highest worst case (> for <)
minimax_guess_max(rem, codes) ==
  LET worst == [k \in DOMAIN codes |-> worst_partition(codes[k], rem)] \o <<>>
      best_score == CHOOSE m \in Range(worst) : \A n \in Range(worst) : m >= n
      first == CHOOSE k \in DOMAIN codes :
                 worst[k] = best_score /\ \A h \in 1..(k - 1) : worst[h] # best_score
      second == {k \in DOMAIN codes : worst[k] = best_score /\ In(codes[k], rem)}
  IN IF second = {} THEN codes[first]
     ELSE codes[CHOOSE k \in second : \A h \in second : k <= h]

\* mutant: the second pass is left out, the first minimiser is returned
minimax_guess_firstpass(rem, codes) ==
  LET worst == [k \in DOMAIN codes |-> worst_partition(codes[k], rem)] \o <<>>
      best_score == CHOOSE m \in Range(worst) : \A n \in Range(worst) : m <= n
      first == CHOOSE k \in DOMAIN codes :
                 worst[k] = best_score /\ \A h \in 1..(k - 1) : worst[h] # best_score
  IN codes[first]

\* first pass: best_score is the lowest worst case over all_codes and
\* best_guess the first guess that has it (the update is on a strict <);
\* second pass: the first guess with that score that is in remaining
\* replaces it.
minimax_guess(rem, codes) ==
  LET worst == [k \in DOMAIN codes |-> worst_partition(codes[k], rem)] \o <<>>
      best_score == CHOOSE m \in Range(worst) : \A n \in Range(worst) : m <= n
      first == CHOOSE k \in DOMAIN codes :
                 worst[k] = best_score /\ \A h \in 1..(k - 1) : worst[h] # best_score
      second == {k \in DOMAIN codes : worst[k] = best_score /\ In(codes[k], rem)}
  IN IF second = {} THEN codes[first]
     ELSE codes[CHOOSE k \in second : \A h \in second : k <= h]

\* remaining.remove(guess): drops the first occurrence
Remove(rem, guess) ==
  LET k == CHOOSE j \in DOMAIN rem : rem[j] = guess /\ \A h \in 1..(j - 1) : rem[h] # guess
  IN SubSeq(rem, 1, k - 1) \o SubSeq(rem, k + 1, Len(rem))

(***************************************************************************)
(* Runs.                                                                   *)
(***************************************************************************)
NoCall == [secret |-> <<>>, guess |-> <<>>, result |-> <<>>]

\* the argument lists the runs are started with
ColorStarts == {1, 5}
ColorLists ==
  {SubSeq(COLORS, lo, hi) :
     lo \in ColorStarts, hi \in 0..Len(COLORS)} \cap
  UNION {[1..n -> Range(COLORS)] : n \in 0..MaxColors}
Secrets(cl, p) == [1..p -> Range(cl) \cup {Foreign}]

\* a run with the module's own peg count, on the opening's four colours
OpeningColors == SubSeq(COLORS, 1, 4)
OpeningSecrets ==
  {initial_guess,
   [initial_guess EXCEPT ![5] = "red"],
   [initial_guess EXCEPT ![1] = "blue"]}

SolverInit(s, p, cl, n, sec) ==
  /\ solver = s
  /\ pegs = p
  /\ colors_list = cl
  /\ num_initial_guesses = n
  /\ secret = sec
  /\ all_codes = product(cl, p)
  /\ remaining = product(cl, p)
  /\ guess_history = <<>>
  /\ fb_log = <<>>
  /\ premises = <<>>
  /\ cnf_premises = <<>>
  /\ turn = 0
  /\ pc = IF s = "minimax" THEN "start" ELSE IF n = 0 THEN "phase2" ELSE "phase1"
  /\ status = "Running"
  /\ call = NoCall

\* the configurations: a peg count and a colour list that give a code space
\* of at most MaxCodes codes
Configs ==
  {c \in (0..MaxPegs) \X ColorLists : Pow(Len(c[2]), c[1]) <= MaxCodes}

Init ==
  \/ \E s \in {"inference", "cnf"}, c \in Configs, n \in 0..MaxInitial :
       \E sec \in Secrets(c[2], c[1]) : SolverInit(s, c[1], c[2], n, sec)
  \/ \E c \in Configs :
       \E sec \in Secrets(c[2], c[1]) : SolverInit("minimax", c[1], c[2], 0, sec)
  \/ \E sec \in OpeningSecrets : SolverInit("minimax", PEGS, OpeningColors, 0, sec)

\* the pc after an iteration of the phase-1 for loop
AfterPhase1 == IF turn + 1 < num_initial_guesses THEN "phase1" ELSE "phase2"

(***************************************************************************)
(* logical_inference_solver (constraint.py).                               *)
(***************************************************************************)
\* one iteration of the phase-1 loop, lines 46-60
InferencePhase1Turn ==
  /\ solver = "inference" /\ pc = "phase1"
  /\ remaining # <<>>
  /\ \E k \in DOMAIN remaining :
       LET guess == remaining[k]
           fb == get_feedback(secret, guess)
       IN /\ turn' = turn + 1
          /\ guess_history' = Append(guess_history, guess)
          /\ fb_log' = Append(fb_log, fb)
          /\ premises' = Append(premises, <<guess, fb>>)
          /\ remaining' = FilterNewest(remaining, guess, fb)
          /\ IF fb = <<pegs, 0>>
             THEN pc' = "done" /\ status' = "Solved"
             ELSE pc' = AfterPhase1 /\ status' = status
  /\ UNCHANGED <<config, cnf_premises, call>>

\* random.choice(remaining) on an empty list, line 48
InferencePhase1Raise ==
  /\ solver = "inference" /\ pc = "phase1"
  /\ remaining = <<>>
  /\ turn' = turn + 1
  /\ pc' = "done"
  /\ status' = "IndexError"
  /\ UNCHANGED <<config, remaining, guess_history, fb_log, premises,
                 cnf_premises, call>>

\* one iteration of the phase-2 loop, lines 64-94
InferencePhase2Turn ==
  /\ solver = "inference" /\ pc = "phase2"
  /\ remaining # <<>>
  /\ LET guess == best_guess(remaining, premises)
         fb == get_feedback(secret, guess)
         new_premises == Append(premises, <<guess, fb>>)
         new_remaining == FilterAll(remaining, new_premises)
     IN /\ turn' = turn + 1
        /\ guess_history' = Append(guess_history, guess)
        /\ fb_log' = Append(fb_log, fb)
        /\ premises' = new_premises
        /\ remaining' = new_remaining
        /\ IF fb = <<pegs, 0>>
           THEN pc' = "done" /\ status' = "Solved"
           ELSE IF new_remaining = <<>>
                THEN pc' = "done" /\ status' = "Exhausted"
                ELSE pc' = "phase2" /\ status' = status
  /\ UNCHANGED <<config, cnf_premises, call>>

\* while remaining: is false on entry, line 96 returns
InferenceReturn ==
  /\ solver = "inference" /\ pc = "phase2"
  /\ remaining = <<>>
  /\ pc' = "done"
  /\ status' = "Exhausted"
  /\ UNCHANGED <<config, remaining, guess_history, fb_log, premises,
                 cnf_premises, turn, call>>

(***************************************************************************)
(* logical_inference_solver_CNF (logicalinterface.py).                     *)
(***************************************************************************)
\* the part of a turn both phases share: guess, feedback, premise, filters.
\* after is the pc when the run goes on.
CNFTurn(after, stopWhenEmpty) ==
  \E k \in DOMAIN remaining :
    LET guess == remaining[k]
        fb == get_feedback(secret, guess)
        new_premises == Append(premises, <<guess, fb>>)
        new_cnf == cnf_premises \o derive_simple_cnf_constraints(guess, fb)
        filtered == FilterAll(remaining, new_premises)
        new_remaining == FilterCNF(filtered, new_cnf)
    IN /\ turn' = turn + 1
       /\ guess_history' = Append(guess_history, guess)
       /\ fb_log' = Append(fb_log, fb)
       /\ IF fb = <<pegs, 0>>
          THEN /\ pc' = "done" /\ status' = "Solved"
               /\ UNCHANGED <<premises, cnf_premises, remaining>>
          ELSE /\ premises' = new_premises
               /\ cnf_premises' = new_cnf
               /\ IF FilterCNFRaises(filtered, new_cnf)
                  THEN /\ remaining' = filtered
                       /\ pc' = "done" /\ status' = "IndexError"
                  ELSE /\ remaining' = new_remaining
                       /\ IF stopWhenEmpty /\ new_remaining = <<>>
                          THEN pc' = "done" /\ status' = "Exhausted"
                          ELSE pc' = after /\ status' = status

\* one iteration of the phase-1 loop, lines 129-151
CNFPhase1Turn ==
  /\ solver = "cnf" /\ pc = "phase1"
  /\ remaining # <<>>
  /\ CNFTurn(AfterPhase1, FALSE)
  /\ UNCHANGED <<config, call>>

\* if not remaining: return, lines 130-132
CNFPhase1Return ==
  /\ solver = "cnf" /\ pc = "phase1"
  /\ remaining = <<>>
  /\ pc' = "done"
  /\ status' = "Exhausted"
  /\ UNCHANGED <<config, remaining, guess_history, fb_log, premises,
                 cnf_premises, turn, call>>

\* one iteration of the phase-2 loop, lines 156-181
CNFPhase2Turn ==
  /\ solver = "cnf" /\ pc = "phase2"
  /\ remaining # <<>>
  /\ CNFTurn("phase2", TRUE)
  /\ UNCHANGED <<config, call>>

\* while remaining: is false on entry, line 183 returns
CNFReturn ==
  /\ solver = "cnf" /\ pc = "phase2"
  /\ remaining = <<>>
  /\ pc' = "done"
  /\ status' = "Exhausted"
  /\ UNCHANGED <<config, remaining, guess_history, fb_log, premises,
                 cnf_premises, turn, call>>

(***************************************************************************)
(* mastermind_minimax_solver (maxmin.py).                                  *)
(***************************************************************************)
\* the statements before the loop, lines 70-78: all_codes[0] is evaluated
\* when the opening is not in all_codes, and raises on an empty code space
MinimaxStart ==
  /\ solver = "minimax" /\ pc = "start"
  /\ IF In(initial_guess, all_codes) \/ all_codes # <<>>
     THEN pc' = "loop" /\ status' = status
     ELSE pc' = "done" /\ status' = "IndexError"
  /\ UNCHANGED <<config, remaining, guess_history, fb_log, premises,
                 cnf_premises, turn, call>>

\* one iteration of the loop, lines 79-113; the loop is entered with a
\* non-empty remaining and left from inside
MinimaxTurn ==
  /\ solver = "minimax" /\ pc = "loop"
  /\ remaining # <<>>
  /\ LET guess == IF turn + 1 = 1 THEN initial_guess
                  ELSE minimax_guess(remaining, all_codes)
         feedback == get_feedback(secret, guess)
         new_remaining == FilterNewest(remaining, guess, feedback)
         next_remaining ==
           IF Len(new_remaining) = Len(remaining)
           THEN (IF In(guess, remaining) THEN Remove(remaining, guess) ELSE remaining)
           ELSE new_remaining
     IN /\ turn' = turn + 1
        /\ guess_history' = Append(guess_history, guess)
        /\ fb_log' = Append(fb_log, feedback)
        /\ IF feedback = <<pegs, 0>>
           THEN pc' = "done" /\ status' = "Solved" /\ remaining' = remaining
           ELSE /\ remaining' = next_remaining
                /\ IF next_remaining = <<>>
                   THEN pc' = "done" /\ status' = "Exhausted"
                   ELSE pc' = "loop" /\ status' = status
  /\ UNCHANGED <<config, premises, cnf_premises, call>>

Next ==
  \/ InferencePhase1Turn
  \/ InferencePhase1Raise
  \/ InferencePhase2Turn
  \/ InferenceReturn
  \/ CNFPhase1Turn
  \/ CNFPhase1Return
  \/ CNFPhase2Turn
  \/ CNFReturn
  \/ MinimaxStart
  \/ MinimaxTurn

Spec == Init /\ [][Next]_vars

(***************************************************************************)
(* get_feedback on its own: one call on two codes of one length.           *)
(***************************************************************************)
FeedbackColors == SubSeq(COLORS, 1, MaxColors)

InitFeedback ==
  \E n \in 0..MaxLen :
    \E a \in [1..n -> Range(FeedbackColors)], b \in [1..n -> Range(FeedbackColors)] :
      /\ solver = "none"
      /\ pegs = n
      /\ colors_list = FeedbackColors
      /\ num_initial_guesses = 0
      /\ secret = <<>>
      /\ all_codes = <<>>
      /\ remaining = <<>>
      /\ guess_history = <<>>
      /\ fb_log = <<>>
      /\ premises = <<>>
      /\ cnf_premises = <<>>
      /\ turn = 0
      /\ pc = "feedback"
      /\ status = "Running"
      /\ call = [secret |-> a, guess |-> b, result |-> <<>>]

\* fb = get_feedback(secret, guess)
CallFeedback ==
  /\ pc = "feedback"
  /\ call' = [call EXCEPT !.result = get_feedback(call.secret, call.guess)]
  /\ pc' = "done"
  /\ UNCHANGED <<config, remaining, guess_history, fb_log, premises,
                 cnf_premises, turn, status>>

NextFeedback == CallFeedback

SpecFeedback == InitFeedback /\ [][NextFeedback]_vars

(***************************************************************************)
(* minimax_guess on its own: one call on a code space and a sub-list of    *)
(* it, in enumeration order, as the solver keeps remaining.  The solver    *)
(* calls it inside while remaining:, so the sub-list is not empty (max()   *)
(* of no partition sizes raises).                                          *)
(***************************************************************************)
\* the sub-lists of a list, order kept
SubLists(codes) ==
  {SelectSeq(codes, LAMBDA code : code \in keep) : keep \in SUBSET Range(codes)}

InitMinimaxGuess ==
  \E c \in Configs :
    \E rem \in SubLists(product(c[2], c[1])) :
      /\ rem # <<>>
      /\ solver = "none"
      /\ pegs = c[1]
      /\ colors_list = c[2]
      /\ num_initial_guesses = 0
      /\ secret = <<>>
      /\ all_codes = product(c[2], c[1])
      /\ remaining = rem
      /\ guess_history = <<>>
      /\ fb_log = <<>>
      /\ premises = <<>>
      /\ cnf_premises = <<>>
      /\ turn = 0
      /\ pc = "minimax_guess"
      /\ status = "Running"
      /\ call = NoCall

\* guess = minimax_guess(remaining, all_codes)
CallMinimaxGuess ==
  /\ pc = "minimax_guess"
  /\ call' = [call EXCEPT !.result = minimax_guess(remaining, all_codes)]
  /\ pc' = "done"
  /\ UNCHANGED <<config, remaining, guess_history, fb_log, premises,
                 cnf_premises, turn, status>>

NextMinimaxGuess == CallMinimaxGuess

SpecMinimaxGuess == InitMinimaxGuess /\ [][NextMinimaxGuess]_vars

(***************************************************************************)
(* The clause layer on its own: derive_simple_cnf_constraints on a guess   *)
(* and a feedback, then code_satisfies_cnf on a code and the clauses; and  *)
(* code_satisfies_cnf on a code and a list of clauses of literal texts.    *)
(***************************************************************************)
\* "Color(i, 'c')", the positive text of lines 39-40 and 60
PosLiteral(i, c) == Tail(NegLiteral(i, c))

\* the text of a literal given by its sign, position and colour
LiteralText(t) == IF t.neg THEN NegLiteral(t.i, t.c) ELSE PosLiteral(t.i, t.c)

\* texts the parser gives up on: no comma to split on, no integer position
NoComma == <<"C", "o", "l", "o", "r", "(", "1", ")">>
NoPosition ==
  <<"~", "C", "o", "l", "o", "r", "(", "x", ",", " ", "'", "r", "e", "d", "'", ")">>

CnfColors == SubSeq(COLORS, 1, 2)
CnfCodes == product(CnfColors, 2)
CnfLiterals ==
  {LiteralText(t) : t \in [neg : BOOLEAN, i : 1..2, c : Range(CnfColors)]}
    \cup {NoComma, NoPosition}
CnfClauses == {cl \in SUBSET CnfLiterals : Cardinality(cl) <= MaxLiterals}
CnfLists == UNION {[1..n -> CnfClauses] : n \in 0..2}

\* the (black, white) pairs a feedback on p pegs can be
Feedbacks(p) == {f \in (0..p) \X (0..p) : f[1] + f[2] <= p}

CnfInit(p, cl, c) ==
  /\ solver = "none"
  /\ pegs = p
  /\ colors_list = cl
  /\ num_initial_guesses = 0
  /\ secret = <<>>
  /\ all_codes = product(cl, p)
  /\ remaining = <<>>
  /\ guess_history = <<>>
  /\ fb_log = <<>>
  /\ premises = <<>>
  /\ cnf_premises = <<>>
  /\ turn = 0
  /\ status = "Running"
  /\ call = c

InitCNF ==
  \/ \E c \in Configs :
       \E guess \in Range(product(c[2], c[1])), code \in Range(product(c[2], c[1])),
          fb \in Feedbacks(c[1]) :
         /\ pc = "derive"
         /\ CnfInit(c[1], c[2], [guess |-> guess, fb |-> fb, code |-> code,
                                 cnf |-> <<>>, result |-> ""])
  \/ \E code \in Range(CnfCodes), cnf \in CnfLists :
       /\ pc = "satisfies"
       /\ CnfInit(2, CnfColors, [guess |-> <<>>, fb |-> <<>>, code |-> code,
                                 cnf |-> cnf, result |-> ""])

\* new_clauses = derive_simple_cnf_constraints(guess, fb)
CallDerive ==
  /\ pc = "derive"
  /\ call' = [call EXCEPT !.cnf = derive_simple_cnf_constraints(call.guess, call.fb)]
  /\ pc' = "satisfies"
  /\ UNCHANGED <<config, remaining, guess_history, fb_log, premises,
                 cnf_premises, turn, status>>

\* code_satisfies_cnf(code, cnf)
CallSatisfies ==
  /\ pc = "satisfies"
  /\ \E r \in code_satisfies_cnf(call.code, call.cnf) :
       call' = [call EXCEPT !.result = r]
  /\ pc' = "done"
  /\ UNCHANGED <<config, remaining, guess_history, fb_log, premises,
                 cnf_premises, turn, status>>

NextCNF == CallDerive \/ CallSatisfies

SpecCNF == InitCNF /\ [][NextCNF]_vars

(***************************************************************************)
(* Properties.                                                             *)
(***************************************************************************)
\* the secret is a Code of the configured length over the configured alphabet
ValidSecret ==
  /\ Len(secret) = pegs
  /\ \A i \in DOMAIN secret : In(secret[i], colors_list)

\* the opening guess of the run is a Code of the space
OpeningIsCode ==
  /\ Len(initial_guess) = pegs
  /\ \A i \in DOMAIN initial_guess : In(initial_guess[i], colors_list)

InvalidConfiguration ==
  \/ pegs <= 0
  \/ colors_list = <<>>
  \/ solver = "minimax" /\ ~OpeningIsCode

IsSolverRun == solver \in {"inference", "cnf", "minimax"}

\* C1: for a valid secret every solver run ends Solved, after at most
\* |alphabet|^P turns: no run makes more turns than that, and a run that has
\* ended has ended Solved.
C1_SolvedWithinCodeSpaceTurns ==
  IsSolverRun /\ ValidSecret =>
    /\ turn <= Pow(Len(colors_list), pegs)
    /\ (pc = "done" => status = "Solved")

\* the turns whose (guess, feedback) pair the candidate list has been
\* filtered on: all of them, but the solving turn of the cnf and minimax
\* solvers, which stop before they filter
FilteredTurns ==
  IF status = "Solved" /\ solver \in {"cnf", "minimax"}
  THEN 1..(Len(guess_history) - 1)
  ELSE 1..Len(guess_history)

ConsistentOn(code, turns) ==
  \A i \in turns : get_feedback(code, guess_history[i]) = fb_log[i]

\* C2 as stated: a Code is in remaining iff it gives the recorded feedback
\* against every guess of the run so far.
C2_CandidatesIffConsistent ==
  IsSolverRun =>
    \A k \in DOMAIN all_codes :
      In(all_codes[k], remaining) <=> ConsistentOn(all_codes[k], DOMAIN guess_history)

\* C2 amended: a Code is in remaining iff it gives the recorded feedback
\* against every guess of the run so far, the solving guess of the cnf and
\* minimax solvers excepted (they stop without filtering on it).
C2_CandidatesIffFiltered ==
  IsSolverRun =>
    \A k \in DOMAIN all_codes :
      In(all_codes[k], remaining) <=> ConsistentOn(all_codes[k], FilteredTurns)

\* a minimax run that went through a turn without progress (the opening
\* guess told nothing), kept the candidates, and was then solved
C2_Witness ==
  /\ solver = "minimax" /\ status = "Solved" /\ turn >= 2
  /\ Len(remaining) >= 2

\* C3: the candidate list starts as the full code space and never grows:
\* after a turn it is a sub-list of what it was before the turn.
C3_RemainingNeverGrows ==
  /\ (IsSolverRun => remaining = product(colors_list, pegs))
  /\ [][/\ Len(remaining') <= Len(remaining)
        /\ \A k \in DOMAIN remaining' : In(remaining'[k], remaining)]_vars

\* a run whose candidates were narrowed on two turns in a row
C3_Witness ==
  /\ IsSolverRun /\ turn >= 2 /\ status = "Running"
  /\ remaining # <<>>
  /\ Len(remaining) < Len(FilterNewest(all_codes, guess_history[1], fb_log[1]))
  /\ Len(FilterNewest(all_codes, guess_history[1], fb_log[1])) < Len(all_codes)

\* the guess of the turn just made is a minimax guess against the
\* candidates the turn started with
GuessIsMinimax ==
  \A k \in DOMAIN all_codes :
    worst_partition(Last(guess_history'), remaining)
      <= worst_partition(all_codes[k], remaining)

\* C4 as stated: at every turn of a minimax run, turn 1 with its fixed
\* opening guess (a Code of the space) included, no Code of the full space
\* has a smaller worst-case partition than the guess.
C4_MinimaxAtEveryTurn ==
  [][solver = "minimax" /\ OpeningIsCode /\ turn' = turn + 1 => GuessIsMinimax]_vars

\* C4 amended: at every turn after the first of a minimax run, no Code of
\* the full space has a smaller worst-case partition than the guess.
C4_MinimaxAfterOpening ==
  [][solver = "minimax" /\ turn >= 1 /\ turn' = turn + 1 => GuessIsMinimax]_vars

\* a minimax run with a valid opening that made a minimax guess
C4_Witness ==
  /\ solver = "minimax" /\ OpeningIsCode /\ ValidSecret
  /\ turn >= 2

\* C5: whatever the secret, an empty candidate list ends the run Exhausted;
\* no guess is drawn from an empty list (random.choice would raise) and the
\* run does not crash.  Stated for the runs a valid configuration starts.
C5_EmptyEndsExhausted ==
  IsSolverRun /\ ~InvalidConfiguration =>
    /\ status # "IndexError"
    /\ (pc = "done" /\ remaining = <<>> => status = "Exhausted")

\* C6: in a Solved run (of at least one peg, on a valid secret) the last
\* guess is the secret, with feedback (P, 0), no earlier guess is the secret,
\* and no guess follows.
C6_SolvedByTheSecret ==
  /\ [](status = "Solved" /\ pegs > 0 /\ ValidSecret =>
          /\ Last(guess_history) = secret
          /\ Last(fb_log) = <<pegs, 0>>
          /\ \A i \in 1..(Len(guess_history) - 1) : guess_history[i] # secret)
  /\ [][status = "Solved" => guess_history' = guess_history]_vars

\* C7: a run with an invalid configuration makes no turn: nothing is
\* guessed and no feedback is evaluated.
C7_InvalidConfigurationMakesNoTurn ==
  IsSolverRun /\ InvalidConfiguration =>
    guess_history = <<>> /\ fb_log = <<>>

\* C8: get_feedback is symmetric on codes of one length.
C8_FeedbackSymmetric ==
  call.result # <<>> =>
    call.result = get_feedback(call.guess, call.secret)

\* a call on two different codes that share a misplaced colour
C8_Witness ==
  /\ call.result # <<>> /\ call.secret # call.guess
  /\ call.result[2] > 0 /\ call.result[1] > 0

\* C9: get_feedback(a, a) is (P, 0), and for a # b black is below P.
C9_FullBlackIffEqual ==
  call.result # <<>> =>
    /\ (call.secret = call.guess => call.result = <<Len(call.secret), 0>>)
    /\ (call.secret # call.guess => call.result[1] < Len(call.secret))

\* a call on a code with a repeated colour against itself
C9_Witness ==
  /\ call.result # <<>> /\ call.secret = call.guess
  /\ Len(call.secret) >= 2 /\ call.secret[1] = call.secret[2]

\* sum over the symbols of S of min(count in a, count in b)
RECURSIVE Overlap(_, _, _)
Overlap(S, a, b) ==
  IF S = {} THEN 0
  ELSE LET c == CHOOSE e \in S : TRUE
           na == Cardinality({i \in DOMAIN a : a[i] = c})
           nb == Cardinality({i \in DOMAIN b : b[i] = c})
       IN (IF na <= nb THEN na ELSE nb) + Overlap(S \ {c}, a, b)

\* C10: black is the number of agreeing positions, white the colour overlap
\* (summed over the alphabet) minus black, and 0 <= black <= P, white >= 0,
\* black + white <= P.
C10_FeedbackFormula ==
  call.result # <<>> =>
    LET a == call.secret
        b == call.guess
        black == Cardinality({i \in DOMAIN a : a[i] = b[i]})
    IN /\ call.result[1] = black
       /\ call.result[2] = Overlap(Range(colors_list), a, b) - black
       /\ 0 <= call.result[1] /\ call.result[1] <= Len(a)
       /\ call.result[2] >= 0
       /\ call.result[1] + call.result[2] <= Len(a)

\* a call with black and white pegs that leaves a peg unmatched
C10_Witness ==
  /\ call.result # <<>>
  /\ call.result[1] > 0 /\ call.result[2] > 0
  /\ call.result[1] + call.result[2] < Len(call.secret)

\* an inference turn of the scored-inference solver is about to be made
InferenceTurnNext == solver = "inference" /\ pc = "phase2" /\ remaining # <<>>

\* C11: at every inference turn of the scored-inference solver the secret,
\* if it is still in remaining, has score 0 against the recorded premises.
C11_SecretScoresZero ==
  InferenceTurnNext /\ In(secret, remaining) => Score(secret, premises) = 0

\* an inference turn with premises that gave black and white pegs, the
\* secret still among several candidates
C11_Witness ==
  /\ InferenceTurnNext /\ In(secret, remaining)
  /\ Len(remaining) >= 2 /\ Len(premises) >= 2
  /\ \E j \in DOMAIN premises : premises[j][2][1] > 0 /\ premises[j][2][2] > 0

\* the position of a code in the enumeration of the code space
EnumIndex(code) == CHOOSE k \in DOMAIN all_codes : all_codes[k] = code

\* C12: the guess of an inference turn of the scored-inference solver is a
\* candidate of remaining with minimum score, and the first in enumeration
\* order among the candidates with that score.
C12_FirstMinimumScore ==
  [][InferenceTurnNext /\ turn' = turn + 1 =>
       LET guess == Last(guess_history')
       IN /\ In(guess, remaining)
          /\ \A k \in DOMAIN remaining :
               /\ Score(guess, premises) <= Score(remaining[k], premises)
               /\ Score(guess, premises) = Score(remaining[k], premises)
                    => EnumIndex(guess) <= EnumIndex(remaining[k])]_vars

\* an inference turn was made from at least two candidates
C12_Witness ==
  /\ solver = "inference" /\ Len(guess_history) > num_initial_guesses
  /\ Len(premises) >= 2
  /\ Len(FilterAll(all_codes, SubSeq(premises, 1, Len(premises) - 1))) >= 2

\* an inference turn of the CNF solver is about to be made
CNFInferenceTurnNext == solver = "cnf" /\ pc = "phase2" /\ remaining # <<>>

\* C13 (as stated): each inference guess of the CNF solver is the
\* minimum-score candidate, earliest on ties, among the candidates of
\* remaining that satisfy every clause, or among all of remaining when no
\* candidate satisfies the clauses.
C13_ScoredSelection ==
  [][CNFInferenceTurnNext /\ turn' = turn + 1 =>
       LET sat == FilterCNF(remaining, cnf_premises)
           pool == IF sat = <<>> THEN remaining ELSE sat
       IN Last(guess_history') = best_guess(pool, premises)]_vars

\* C13 (amended): each inference guess of the CNF solver is some candidate
\* of remaining; it satisfies every accumulated clause and has score 0, the
\* minimum, but it need not be the earliest such candidate; and a turn that
\* leaves no candidate ends the run Exhausted, nothing is fallen back on.
C13_AnyFilteredCandidate ==
  [][CNFInferenceTurnNext /\ turn' = turn + 1 =>
       LET guess == Last(guess_history')
       IN /\ In(guess, remaining)
          /\ code_satisfies_cnf(guess, cnf_premises) = {"True"}
          /\ Score(guess, premises) = 0
          /\ remaining' = <<>> => pc' = "done" /\ status' = "Exhausted"]_vars

\* an inference turn of the CNF solver guessed a candidate other than the
\* first one, with clauses and premises recorded
C13_Witness ==
  /\ solver = "cnf" /\ Len(guess_history) > num_initial_guesses
  /\ Len(premises) >= 2 /\ cnf_premises # <<>>
  /\ LET before == FilterAll(all_codes, SubSeq(premises, 1, Len(premises) - 1))
     IN Len(before) >= 2 /\ Last(guess_history) # before[1]

\* the codes of the space with the lowest worst-case partition of remaining
Minimisers ==
  {code \in Range(all_codes) :
     \A k \in DOMAIN all_codes :
       worst_partition(code, remaining) <= worst_partition(all_codes[k], remaining)}

MinimaxGuessReturned ==
  solver = "none" /\ pc = "done" /\ remaining # <<>>

\* C14: minimax_guess returns a minimiser of the worst-case partition over
\* the full space; it returns one that is in remaining whenever some
\* minimiser is in remaining, and one outside remaining otherwise.
C14_PrefersRemaining ==
  MinimaxGuessReturned =>
    /\ call.result \in Minimisers
    /\ In(call.result, remaining) <=> \E code \in Minimisers : In(code, remaining)

\* a call where the first minimiser of the space is outside remaining and
\* another minimiser is inside
C14_Witness ==
  /\ MinimaxGuessReturned
  /\ In(call.result, remaining)
  /\ \E k \in DOMAIN all_codes :
       /\ all_codes[k] \in Minimisers /\ ~In(all_codes[k], remaining)
       /\ k < EnumIndex(call.result)

\* a call where no minimiser is in remaining, which is not empty
C14_OutsideCase ==
  /\ MinimaxGuessReturned
  /\ ~In(call.result, remaining)

\* a turn of a premise-recording solver that recorded a premise
PremiseRecorded ==
  solver \in {"inference", "cnf"} /\ premises' # premises

\* C15: after every turn, filtering the already-filtered candidates on the
\* newest premise alone gives the same candidates as filtering on the whole
\* premise history, from the candidates or from the full code space, and
\* that is the new candidate set.
C15_IncrementalIsFull ==
  [][PremiseRecorded =>
       LET newest == Last(premises')
           incremental == FilterNewest(remaining, newest[1], newest[2])
       IN /\ incremental = FilterAll(remaining, premises')
          /\ incremental = FilterAll(all_codes, premises')
          /\ remaining' = incremental]_vars

\* two premises recorded, candidates left, and the newest premise alone
\* would keep a code that the history has excluded
C15_Witness ==
  /\ solver \in {"inference", "cnf"} /\ Len(premises) >= 2
  /\ remaining # <<>>
  /\ remaining = FilterAll(all_codes, premises)
  /\ LET newest == Last(premises)
     IN FilterNewest(all_codes, newest[1], newest[2]) # remaining

\* the literals over the positions of a code and the colours of the module
Triples(code) == [neg : BOOLEAN, i : DOMAIN code, c : Range(COLORS)]

\* a text is well formed for a code when it is the text of such a literal
WellFormed(code, text) == \E t \in Triples(code) : LiteralText(t) = text
Meaning(code, text) == CHOOSE t \in Triples(code) : LiteralText(t) = text

\* Color(i, c) is true iff code[i-1] == c, ~Color(i, c) iff code[i-1] != c
\* (positions count from 1, as TLA+ sequences do)
LiteralTrue(code, text) ==
  LET t == Meaning(code, text)
  IN IF t.neg THEN code[t.i] # t.c ELSE code[t.i] = t.c

AllWellFormed(code, cnf) ==
  \A k \in DOMAIN cnf : \A text \in cnf[k] : WellFormed(code, text)

\* derive_simple_cnf_constraints has returned into call.cnf
Derived == pc \in {"satisfies", "done"} /\ call.fb # <<>>

\* C16: on a black count of 0 derive_simple_cnf_constraints returns one
\* clause per position of the guess, in order, each a single negative
\* literal that holds of a code iff the code differs from the guess at that
\* position; on a black count above 0 it returns no clause, whatever the
\* white count.
C16_OneNegativeClausePerPosition ==
  Derived =>
    IF call.fb[1] = 0
    THEN /\ Len(call.cnf) = Len(call.guess)
         /\ \A i \in DOMAIN call.cnf :
              /\ Cardinality(call.cnf[i]) = 1
              /\ \A text \in call.cnf[i] :
                   /\ WellFormed(call.guess, text)
                   /\ Meaning(call.guess, text) =
                        [neg |-> TRUE, i |-> i, c |-> call.guess[i]]
    ELSE call.cnf = <<>>

\* clauses were derived on black 0 with white pegs
C16_Witness ==
  Derived /\ call.fb[1] = 0 /\ call.fb[2] > 0 /\ Len(call.cnf) >= 2

\* a call on a black count above 0 with no white peg
C16_NoClauseCase ==
  Derived /\ call.fb[1] > 0 /\ call.fb[2] = 0 /\ call.guess # <<>>

\* C17: on clauses of well-formed literals code_satisfies_cnf returns True
\* iff every clause has a literal that is true of the code, and False
\* otherwise; so an empty clause list gives True; and the clauses derived
\* from a guess on black 0 give True iff the code differs from the guess at
\* every position.
C17_SatisfiesIffEveryClauseHasTrueLiteral ==
  pc = "done" /\ AllWellFormed(call.code, call.cnf) =>
    /\ call.result \in {"True", "False"}
    /\ call.result = "True" <=>
         \A k \in DOMAIN call.cnf :
           \E text \in call.cnf[k] : LiteralTrue(call.code, text)
    /\ call.cnf = <<>> => call.result = "True"
    /\ call.fb # <<>> /\ call.fb[1] = 0 =>
         (call.result = "True" <=>
            \A i \in DOMAIN call.guess : call.code[i] # call.guess[i])

\* a call on two clauses of two well-formed literals each, a positive and a
\* negative one in the first, that returned True
C17_Witness ==
  /\ pc = "done" /\ call.fb = <<>> /\ call.result = "True"
  /\ AllWellFormed(call.code, call.cnf)
  /\ Len(call.cnf) = 2
  /\ Cardinality(call.cnf[1]) = 2 /\ Cardinality(call.cnf[2]) = 2
  /\ \E a \in call.cnf[1], b \in call.cnf[1] :
       /\ Meaning(call.code, a).neg /\ ~Meaning(call.code, b).neg
       /\ ~LiteralTrue(call.code, a) /\ LiteralTrue(call.code, b)

\* derived clauses evaluated to False on a code that shares a position with
\* the guess
C17_DerivedCase ==
  /\ pc = "done" /\ call.fb # <<>> /\ call.fb[1] = 0 /\ call.result = "False"
  /\ Len(call.cnf) >= 2

\* C18 (as stated): a call of code_satisfies_cnf on clauses that hold a
\* literal text that cannot be parsed fails; it returns neither True nor
\* False.
C18_MalformedLiteralFails ==
  pc = "done" /\ ~AllWellFormed(call.code, call.cnf) =>
    call.result \notin {"True", "False"}

\* C19: in the runs of the three solvers on a valid secret, the secret is
\* among the candidates in every state, the solving turn included, it
\* satisfies every accumulated clause, and the run is never Exhausted.
C19_ValidSecretStaysCandidate ==
  IsSolverRun /\ ValidSecret =>
    /\ In(secret, remaining)
    /\ code_satisfies_cnf(secret, cnf_premises) = {"True"}
    /\ status # "Exhausted"

\* a CNF run on a valid secret, solved on its third turn or later, with
\* clauses accumulated and candidates removed
C19_Witness ==
  /\ solver = "cnf" /\ ValidSecret /\ status = "Solved"
  /\ turn >= 3 /\ cnf_premises # <<>>
  /\ Len(remaining) < Len(all_codes)

\* C20: after every turn of the CNF solver that records a premise, every
\* Code of the space that is consistent with all recorded premises
\* satisfies every accumulated clause, and the clause filter returns the
\* premise-filtered candidates unchanged.
C20_ClauseFilterRedundant ==
  [][solver = "cnf" /\ premises' # premises =>
       LET filtered == FilterAll(remaining, premises')
       IN /\ \A k \in DOMAIN all_codes :
               FilterAll(<<all_codes[k]>>, premises') # <<>>
                 => code_satisfies_cnf(all_codes[k], cnf_premises') = {"True"}
          /\ FilterCNF(filtered, cnf_premises') = filtered
          /\ remaining' = filtered]_vars

\* clauses from two turns, a turn that gave none, candidates left
C20_Witness ==
  /\ solver = "cnf" /\ remaining # <<>>
  /\ Len(cnf_premises) >= 2 * pegs /\ pegs >= 2
  /\ \E j \in DOMAIN premises : premises[j][2][1] > 0

\* a turn of the minimax solver that did not solve
MinimaxTurnUnsolved ==
  solver = "minimax" /\ turn' = turn + 1 /\ Last(fb_log') # <<pegs, 0>>

\* C21: in a minimax run whose opening guess is a Code of the space, every
\* turn that does not solve leaves fewer candidates than it found, so the
\* filter always makes progress; and in any minimax run a turn on which the
\* filter makes no progress has a guess outside remaining and leaves
\* remaining as it was.
C21_StrictProgress ==
  [][MinimaxTurnUnsolved =>
       LET guess == Last(guess_history')
           new_remaining == FilterNewest(remaining, guess, Last(fb_log'))
       IN /\ OpeningIsCode =>
               /\ Len(new_remaining) < Len(remaining)
               /\ Len(remaining') < Len(remaining)
          /\ Len(new_remaining) = Len(remaining) =>
               ~In(guess, remaining) /\ remaining' = remaining]_vars

\* a run on the module's peg count whose opening is a Code: two turns that
\* did not solve, candidates left
C21_Witness ==
  /\ solver = "minimax" /\ OpeningIsCode /\ pegs = PEGS
  /\ turn >= 2 /\ status = "Running" /\ remaining # <<>>
  /\ Len(remaining) < Len(all_codes)

\* a run whose opening is not a Code: the first turn made no progress
C21_NoProgressCase ==
  /\ solver = "minimax" /\ ~OpeningIsCode
  /\ turn = 1 /\ status = "Running" /\ remaining = all_codes

\* C22: in a run of any of the three solvers on a valid secret and a valid
\* configuration no Code is guessed twice.
C22_NoRepeatedGuess ==
  IsSolverRun /\ ValidSecret /\ ~InvalidConfiguration =>
    \A i \in DOMAIN guess_history, j \in DOMAIN guess_history :
      guess_history[i] = guess_history[j] => i = j

\* a minimax run on a valid secret and configuration, solved on its third
\* turn or later, with a guess that was not a candidate when it was made
C22_Witness ==
  /\ solver = "minimax" /\ ValidSecret /\ ~InvalidConfiguration
  /\ status = "Solved" /\ Len(guess_history) >= 3
  /\ \E k \in 2..Len(guess_history) : ~ConsistentOn(guess_history[k], 1..(k - 1))

\* an inference run and a CNF run of three turns or more
C22_InferenceCase ==
  /\ solver \in {"inference", "cnf"} /\ ValidSecret /\ ~InvalidConfiguration
  /\ status = "Solved" /\ Len(guess_history) >= 3

====
